---- MODULE Spec2Model ----
(***************************************************************************)
(* Model of the Clip-Maker Telegram bot (src/bot.py): the conversation     *)
(* handlers start, get_video, get_title, get_channel, get_duration,        *)
(* get_color_and_process and cancel, the per-user data bag, and the files  *)
(* the handlers create and delete in the working directory.                *)
(*                                                                         *)
(* The application is built with the library defaults (src/bot.py:193), so *)
(* updates are dispatched one at a time: a handler runs to its return (or  *)
(* raise) before the next update is looked at.  Short handlers are one     *)
(* action each.  get_color_and_process is a sequence of steps, one per     *)
(* external call (probe, transcode, delivery, deletion), so that the order *)
(* of its effects can be stated.                                           *)
(*                                                                         *)
(* Durations of a source are counted in ticks of 1/Res second, which       *)
(* keeps the fractional remainders of float(probe['format']['duration']).  *)
(* reply_text is modelled as an output that does not fail, and a failed    *)
(* ffmpeg.run as leaving no output file.  One user is modelled: the        *)
(* handlers of different users never overlap, and share only the working   *)
(* directory.  A /cancel sent while a job runs waits in the update queue   *)
(* (pending_cancel); collected records the keys of the data bag written    *)
(* since the user's last /start.                                           *)
(***************************************************************************)
EXTENDS Integers, Sequences, FiniteSets, TLC

\* ---------------------------------------------------------------- bounds

\* Longest text message considered for the duration step, in characters.
MaxLen == 2
\* Longest source considered, in ticks.
MaxTotalTicks == 6
\* Number of distinct Telegram file ids an upload may carry.
MaxFileId == 2
\* Number of distinct texts for title, channel and color.
MaxText == 1
\* Ticks per second.
Res == 2
\* Largest part number and largest user id whose file names are compared.
MaxPart == 12
MaxJobId == 12

Users == {1}
FileIds == 1..MaxFileId
Texts == 1..MaxText
\* ffprobe reports a positive duration for a video it can read.
TotalTicks == 1..MaxTotalTicks
Chars == {"0", "1", "-", "x"}
Messages == UNION {[1..n -> Chars] : n \in 1..MaxLen}

\* ------------------------------------------------------- pure functions

\* The conversation states (GET_VIDEO .. GET_COLOR) and ConversationHandler.END.
States == {"GET_VIDEO", "GET_TITLE", "GET_CHANNEL", "GET_DURATION", "GET_COLOR"}
END == "END"

IsDigit(c) == c \in {"0", "1"}
DigitVal(c) == IF c = "1" THEN 1 ELSE 0

RECURSIVE DigitsVal(_)
DigitsVal(s) ==
    IF Len(s) = 0 THEN 0
    ELSE 10 * DigitsVal(SubSeq(s, 1, Len(s) - 1)) + DigitVal(s[Len(s)])

AllDigits(s) == Len(s) > 0 /\ \A k \in 1..Len(s) : IsDigit(s[k])

\* int(text): an optional sign followed by one or more digits; anything else
\* raises ValueError.
IntParses(s) ==
    \/ AllDigits(s)
    \/ Len(s) > 1 /\ s[1] = "-" /\ AllDigits(Tail(s))

IntValue(s) ==
    IF s[1] = "-" THEN 0 - DigitsVal(Tail(s)) ELSE DigitsVal(s)

\* str(n) of a natural number, as a sequence of characters.
DigitChar(d) == <<"0", "1", "2", "3", "4", "5", "6", "7", "8", "9">>[d + 1]

RECURSIVE Str(_)
Str(n) == IF n < 10 THEN <<DigitChar(n)>>
          ELSE Str(n \div 10) \o <<DigitChar(n % 10)>>

\* f"{video_file.file_id}.mp4", a file id being written as a number.
VideoPath(fid) == Str(fid) \o <<".", "m", "p", "4">>

\* A part number that starts at 0, as the loop variable does.
PartNumZeroBased(i) == i

\* part_num = i + 1
PartNum(i) == i + 1

\* start_time = i * clip_duration
StartTime(i, clip_duration) == i * clip_duration

\* f"part_{part_num}.mp4": the name without the user id.
OutputFilenameNoUser(part_num, user_id) ==
    <<"p", "a", "r", "t", "_">> \o Str(part_num) \o <<".", "m", "p", "4">>

\* f"part_{part_num}_{context._user_id}.mp4"
OutputFilename(part_num, user_id) ==
    <<"p", "a", "r", "t", "_">> \o Str(part_num) \o <<"_">> \o Str(user_id)
        \o <<".", "m", "p", "4">>

\* int(total_duration / clip_duration) + 1: one clip too many when the
\* duration is a multiple of the clip duration.
NumClipsFloorPlusOne(ticks, clip_duration) ==
    IF clip_duration > 0
    THEN (ticks \div (Res * clip_duration)) + 1
    ELSE 0 - (ticks \div (Res * (0 - clip_duration)))

\* math.ceil(total_duration / clip_duration), total_duration = ticks / Res,
\* clip_duration a non-zero integer.
NumClips(ticks, clip_duration) ==
    IF clip_duration > 0
    THEN (ticks + Res * clip_duration - 1) \div (Res * clip_duration)
    ELSE 0 - (ticks \div (Res * (0 - clip_duration)))

\* len(range(num_clips)): the number of iterations of the loop.
RangeLen(n) == IF n > 0 THEN n ELSE 0

\* dict assignment: d[k] = v
Put(d, k, v) == [x \in DOMAIN d \cup {k} |-> IF x = k THEN v ELSE d[x]]

\* --------------------------------------------------------------- state

VARIABLES
    conv,          \* conv[u]: the conversation state of user u, or END
    user_data,     \* user_data[u]: context.user_data, a dict
    fs,            \* the paths that exist in the working directory
    pc,            \* where the running get_color_and_process is, or "idle"
    cur,           \* the user whose update is being handled
    total,         \* total_duration of the running job, in ticks
    num_clips,     \* num_clips of the running job
    i,             \* the loop variable of the running job
    failure,       \* what raised inside the try block of the running job
    transcodes,    \* the ffmpeg.run calls of the running job, in order
    deliveries,    \* the send_video calls of the running job, in order
    reports,       \* the final replies of the running job: "done", "error"
    cleanups,      \* how often the finally block of the running job ran
    last,          \* the handler that ran last, how it ended and what its
                   \* cleanup of the source file found
    pending_cancel,\* a /cancel of the user has arrived while the job handler
                   \* runs and waits for the handler to end
    collected      \* collected[u]: the entries of user_data[u] written since
                   \* the last /start of user u

vars == <<conv, user_data, fs, pc, cur, total, num_clips, i, failure,
          transcodes, deliveries, reports, cleanups, last, pending_cancel,
          collected>>

job == <<pc, cur, total, num_clips, i, failure, transcodes, deliveries,
         reports, cleanups, pending_cancel>>

EmptyDict == [x \in {} |-> 0]

\* The record of a handler's run.  cleanup: "none" (no deletion of the source
\* was looked at), "absent" (the file was not there), "removed", "failed"
\* (os.remove raised on a file that is there).
Ran(handler, outcome, cleanup) ==
    [handler |-> handler, outcome |-> outcome, cleanup |-> cleanup]

\* What a cleanup of d['video_path'] finds, for the record.
Found(d, raised) ==
    IF "video_path" \notin DOMAIN d THEN "none"
    ELSE IF d["video_path"] \notin fs THEN "absent"
    ELSE IF raised THEN "failed" ELSE "removed"

NoJob ==
    /\ pc' = "idle"
    /\ cur' = 0
    /\ total' = 0
    /\ num_clips' = 0
    /\ i' = 0
    /\ failure' = "none"
    /\ transcodes' = <<>>
    /\ deliveries' = <<>>
    /\ reports' = <<>>
    /\ cleanups' = 0
    /\ pending_cancel' = FALSE

Init ==
    /\ conv = [u \in Users |-> END]
    /\ user_data = [u \in Users |-> EmptyDict]
    /\ fs = {}
    /\ pc = "idle"
    /\ cur = 0
    /\ total = 0
    /\ num_clips = 0
    /\ i = 0
    /\ failure = "none"
    /\ transcodes = <<>>
    /\ deliveries = <<>>
    /\ reports = <<>>
    /\ cleanups = 0
    /\ last = Ran("none", "returned", "none")
    /\ pending_cancel = FALSE
    /\ collected = [u \in Users |-> EmptyDict]

\* ------------------------------------------------- the short handlers

\* /start, an entry point: taken only when the user has no conversation.
Start(u) ==
    /\ pc = "idle"
    /\ conv[u] = END
    /\ conv' = [conv EXCEPT ![u] = "GET_VIDEO"]
    /\ last' = Ran("start", "returned", "none")
    /\ collected' = [collected EXCEPT ![u] = EmptyDict]
    /\ UNCHANGED <<user_data, fs, job>>

\* A video message in GET_VIDEO.
GetVideo(u) ==
    /\ pc = "idle"
    /\ conv[u] = "GET_VIDEO"
    /\ \E fid \in FileIds :
        /\ fs' = fs \cup {VideoPath(fid)}
        /\ user_data' = [user_data EXCEPT
                           ![u] = Put(@, "video_path", VideoPath(fid))]
        /\ collected' = [collected EXCEPT
                           ![u] = Put(@, "video_path", VideoPath(fid))]
    /\ conv' = [conv EXCEPT ![u] = "GET_TITLE"]
    /\ last' = Ran("get_video", "returned", "none")
    /\ UNCHANGED job

\* A text message in GET_TITLE.
GetTitle(u) ==
    /\ pc = "idle"
    /\ conv[u] = "GET_TITLE"
    /\ \E t \in Texts :
        /\ user_data' = [user_data EXCEPT ![u] = Put(@, "title", t)]
        /\ collected' = [collected EXCEPT ![u] = Put(@, "title", t)]
    /\ conv' = [conv EXCEPT ![u] = "GET_CHANNEL"]
    /\ last' = Ran("get_title", "returned", "none")
    /\ UNCHANGED <<fs, job>>

\* A text message in GET_CHANNEL.
GetChannel(u) ==
    /\ pc = "idle"
    /\ conv[u] = "GET_CHANNEL"
    /\ \E t \in Texts :
        /\ user_data' = [user_data EXCEPT ![u] = Put(@, "channel", t)]
        /\ collected' = [collected EXCEPT ![u] = Put(@, "channel", t)]
    /\ conv' = [conv EXCEPT ![u] = "GET_DURATION"]
    /\ last' = Ran("get_channel", "returned", "none")
    /\ UNCHANGED <<fs, job>>

\* get_duration going on to GET_COLOR after a ValueError, with nothing
\* stored.
GetDurationAdvancesOnError(u) ==
    /\ pc = "idle"
    /\ conv[u] = "GET_DURATION"
    /\ \E m \in Messages :
        IF IntParses(m)
        THEN /\ user_data' = [user_data EXCEPT
                                ![u] = Put(@, "duration", IntValue(m))]
             /\ collected' = [collected EXCEPT
                                ![u] = Put(@, "duration", IntValue(m))]
        ELSE /\ UNCHANGED <<user_data, collected>>
    /\ conv' = [conv EXCEPT ![u] = "GET_COLOR"]
    /\ last' = Ran("get_duration", "returned", "none")
    /\ UNCHANGED <<fs, job>>

\* A text message in GET_DURATION.
GetDuration(u) ==
    /\ pc = "idle"
    /\ conv[u] = "GET_DURATION"
    /\ \E m \in Messages :
        IF IntParses(m)
        THEN /\ user_data' = [user_data EXCEPT
                                ![u] = Put(@, "duration", IntValue(m))]
             /\ collected' = [collected EXCEPT
                                ![u] = Put(@, "duration", IntValue(m))]
             /\ conv' = [conv EXCEPT ![u] = "GET_COLOR"]
        ELSE /\ UNCHANGED <<user_data, collected>>
             /\ conv' = [conv EXCEPT ![u] = "GET_DURATION"]
    /\ last' = Ran("get_duration", "returned", "none")
    /\ UNCHANGED <<fs, job>>

\* ------------------------------------------------------------ the files

\* os.path.exists(p)
PathExists(p) == p \in fs

\* os.remove(p): deletes p, or raises (raised = TRUE) and leaves the
\* directory as it is: OSError for a file that cannot be deleted,
\* FileNotFoundError for a file that is not there.
OsRemove(p, raised) ==
    \/ /\ p \in fs
       /\ ~raised
       /\ fs' = fs \ {p}
    \/ /\ raised
       /\ fs' = fs

\* A finally block that never deletes.
SourceCleanupGuardNever(d) == FALSE

\* The condition of the finally block: os.path.exists(user_data['video_path']).
SourceCleanupGuard(d) == PathExists(d["video_path"])

\* The condition in cancel without its os.path.exists test.
CancelCleanupGuardNoExists(d) == "video_path" \in DOMAIN d

\* The condition in cancel: 'video_path' in user_data and os.path.exists(...).
CancelCleanupGuard(d) ==
    "video_path" \in DOMAIN d /\ PathExists(d["video_path"])

\* --------------------------------------------------------------- cancel

\* /cancel, the fallback of every state.  A raise leaves the conversation
\* where it was.
Cancel(u) ==
    /\ pc = "idle"
    /\ conv[u] \in States
    /\ IF CancelCleanupGuard(user_data[u])
       THEN \E raised \in BOOLEAN :
              /\ OsRemove(user_data[u]["video_path"], raised)
              /\ conv' = IF raised THEN conv ELSE [conv EXCEPT ![u] = END]
              /\ last' = Ran("cancel", IF raised THEN "raised" ELSE "returned",
                             Found(user_data[u], raised))
       ELSE /\ fs' = fs
            /\ conv' = [conv EXCEPT ![u] = END]
            /\ last' = Ran("cancel", "returned", Found(user_data[u], FALSE))
    /\ UNCHANGED <<user_data, collected, job>>

\* ------------------------------------------------ get_color_and_process

ClipDuration == user_data[cur]["duration"]
SourcePath == user_data[cur]["video_path"]

\* The ffmpeg.run call of iteration k: the part, ss and t of the input and
\* the output path.
\* ok: whether the call returned.
Window(k, clip_duration, user_id, ok) ==
    [part |-> PartNum(k),
     ss   |-> StartTime(k, clip_duration),
     t    |-> clip_duration,
     out  |-> OutputFilename(PartNum(k), user_id),
     ok   |-> ok]

\* A text message in GET_COLOR: the color is stored and the job begins.
GetColorAndProcess(u) ==
    /\ pc = "idle"
    /\ conv[u] = "GET_COLOR"
    /\ \E c \in Texts :
        /\ user_data' = [user_data EXCEPT ![u] = Put(@, "color", c)]
        /\ collected' = [collected EXCEPT ![u] = Put(@, "color", c)]
    /\ pc' = "probe"
    /\ cur' = u
    /\ UNCHANGED <<conv, fs, total, num_clips, i, failure, transcodes,
                   deliveries, reports, cleanups,
                   last,
                   pending_cancel>>

\* ffmpeg.probe raises and the job goes on with a default of one clip, as
\* it would with the error caught at the call.
ProbeErrorIgnored ==
    /\ pc = "probe"
    /\ failure' = "probe"
    /\ num_clips' = 1
    /\ pc' = "loop"
    /\ UNCHANGED <<conv, user_data, fs, cur, total, i, transcodes,
                   deliveries, reports, cleanups, last,
                   pending_cancel,
                   collected>>

\* ffmpeg.probe raises: always for a missing file, possibly for any file.
ProbeError ==
    /\ pc = "probe"
    /\ failure' = "probe"
    /\ pc' = "except"
    /\ UNCHANGED <<conv, user_data, fs, cur, total, num_clips, i,
                   transcodes, deliveries, reports, cleanups,
                   last,
                   pending_cancel,
                   collected>>

\* ffmpeg.probe returns a duration; math.ceil(total_duration / clip_duration)
\* raises ZeroDivisionError for a clip duration of 0.
ProbeAndPlan ==
    /\ pc = "probe"
    /\ PathExists(SourcePath)
    /\ \E ticks \in TotalTicks :
        /\ total' = ticks
        /\ IF ClipDuration = 0
           THEN /\ failure' = "plan"
                /\ pc' = "except"
                /\ UNCHANGED num_clips
           ELSE /\ num_clips' = NumClips(ticks, ClipDuration)
                /\ pc' = "loop"
                /\ UNCHANGED failure
    /\ UNCHANGED <<conv, user_data, fs, cur, i, transcodes, deliveries,
                   reports, cleanups,
                   last,
                   pending_cancel,
                   collected>>

\* ffmpeg.run of iteration i returns: the output file exists.
TranscodeOk ==
    /\ pc = "loop"
    /\ i < num_clips
    /\ PathExists(SourcePath)
    /\ transcodes' = Append(transcodes, Window(i, ClipDuration, cur, TRUE))
    /\ fs' = fs \cup {OutputFilename(PartNum(i), cur)}
    /\ pc' = "send"
    /\ UNCHANGED <<conv, user_data, cur, total, num_clips, i, failure,
                   deliveries, reports, cleanups,
                   last,
                   pending_cancel,
                   collected>>

\* ffmpeg.run of iteration i raises and the loop goes on with the next
\* iteration, as it would with the try inside the loop.
TranscodeErrorContinues ==
    /\ pc = "loop"
    /\ i < num_clips
    /\ transcodes' = Append(transcodes, Window(i, ClipDuration, cur, FALSE))
    /\ failure' = "transcode"
    /\ i' = i + 1
    /\ UNCHANGED <<conv, user_data, fs, pc, cur, total, num_clips,
                   deliveries, reports, cleanups, last,
                   pending_cancel,
                   collected>>

\* ffmpeg.run of iteration i raises.
TranscodeError ==
    /\ pc = "loop"
    /\ i < num_clips
    /\ transcodes' = Append(transcodes, Window(i, ClipDuration, cur, FALSE))
    /\ failure' = "transcode"
    /\ pc' = "except"
    /\ UNCHANGED <<conv, user_data, fs, cur, total, num_clips, i,
                   deliveries, reports, cleanups,
                   last,
                   pending_cancel,
                   collected>>

\* send_video of iteration i returns.
SendOk ==
    /\ pc = "send"
    /\ deliveries' = Append(deliveries, [part |-> PartNum(i), ok |-> TRUE])
    /\ pc' = "remove"
    /\ UNCHANGED <<conv, user_data, fs, cur, total, num_clips, i, failure,
                   transcodes, reports, cleanups,
                   last,
                   pending_cancel,
                   collected>>

\* send_video of iteration i raises and the error is swallowed: the loop
\* goes on with the deletion of the output file.
SendErrorSwallowed ==
    /\ pc = "send"
    /\ deliveries' = Append(deliveries, [part |-> PartNum(i), ok |-> FALSE])
    /\ failure' = "delivery"
    /\ pc' = "remove"
    /\ UNCHANGED <<conv, user_data, fs, cur, total, num_clips, i,
                   transcodes, reports, cleanups, last,
                   pending_cancel,
                   collected>>

\* send_video of iteration i raises: os.remove(output_filename) is skipped.
SendError ==
    /\ pc = "send"
    /\ deliveries' = Append(deliveries, [part |-> PartNum(i), ok |-> FALSE])
    /\ failure' = "delivery"
    /\ pc' = "except"
    /\ UNCHANGED <<conv, user_data, fs, cur, total, num_clips, i,
                   transcodes, reports, cleanups,
                   last,
                   pending_cancel,
                   collected>>

\* os.remove(output_filename) of iteration i, then the next iteration.
RemoveClip ==
    /\ pc = "remove"
    /\ \E raised \in BOOLEAN :
        /\ OsRemove(OutputFilename(PartNum(i), cur), raised)
        /\ IF raised
           THEN /\ failure' = "remove_clip"
                /\ pc' = "except"
                /\ UNCHANGED i
           ELSE /\ i' = i + 1
                /\ pc' = "loop"
                /\ UNCHANGED failure
    /\ UNCHANGED <<conv, user_data, cur, total, num_clips, transcodes,
                   deliveries, reports, cleanups,
                   last,
                   pending_cancel,
                   collected>>

\* The loop is over: "All done! I have sent you all the clips."
AllDone ==
    /\ pc = "loop"
    /\ ~(i < num_clips)
    /\ reports' = Append(reports, "done")
    /\ pc' = "finally"
    /\ UNCHANGED <<conv, user_data, fs, cur, total, num_clips, i, failure,
                   transcodes, deliveries, cleanups,
                   last,
                   pending_cancel,
                   collected>>

\* except Exception with the cleanup at the end of the try block instead of
\* in a finally block: an error leaves the handler without the cleanup.
ExceptSkipsCleanup ==
    /\ pc = "except"
    /\ reports' = Append(reports, "error")
    /\ pc' = "returned"
    /\ UNCHANGED <<conv, user_data, fs, cur, total, num_clips, i, failure,
                   transcodes, deliveries, cleanups, last,
                   pending_cancel,
                   collected>>

\* except Exception: the error is logged and reported to the user.
Except ==
    /\ pc = "except"
    /\ reports' = Append(reports, "error")
    /\ pc' = "finally"
    /\ UNCHANGED <<conv, user_data, fs, cur, total, num_clips, i, failure,
                   transcodes, deliveries, cleanups,
                   last,
                   pending_cancel,
                   collected>>

\* finally: the source file is removed if it exists.  A raise of os.remove
\* leaves the handler.
Finally ==
    /\ pc = "finally"
    /\ cleanups' = cleanups + 1
    /\ IF SourceCleanupGuard(user_data[cur])
       THEN \E raised \in BOOLEAN :
              /\ OsRemove(SourcePath, raised)
              /\ pc' = IF raised THEN "raised" ELSE "returned"
              /\ last' = Ran("get_color_and_process",
                             IF raised THEN "raised" ELSE "returned",
                             Found(user_data[cur], raised))
       ELSE /\ fs' = fs
            /\ pc' = "returned"
            /\ last' = Ran("get_color_and_process", "returned",
                           Found(user_data[cur], FALSE))
    /\ UNCHANGED <<conv, user_data, cur, total, num_clips, i, failure,
                   transcodes, deliveries, reports,
                   pending_cancel,
                   collected>>

\* The user sends /cancel while the job handler runs.  Updates are handled
\* one at a time, so the update waits; when the handler has ended it is
\* dispatched like any other /cancel (Cancel, or no handler at all once the
\* conversation has ended).
CancelArrives ==
    /\ pc \in {"probe", "loop", "send", "remove", "except", "finally"}
    /\ ~pending_cancel
    /\ pending_cancel' = TRUE
    /\ UNCHANGED <<conv, user_data, fs, pc, cur, total, num_clips, i,
                   failure, transcodes, deliveries, reports, cleanups, last,
                   collected>>

\* return ConversationHandler.END: the conversation of the user ends.
Return ==
    /\ pc = "returned"
    /\ conv' = [conv EXCEPT ![cur] = END]
    /\ NoJob
    /\ UNCHANGED <<user_data, fs, last,
                   collected>>

\* The handler was left by an exception: the conversation stays where it was.
Raise ==
    /\ pc = "raised"
    /\ NoJob
    /\ UNCHANGED <<conv, user_data, fs, last,
                   collected>>

Next ==
    \/ \E u \in Users : Start(u)
    \/ \E u \in Users : GetVideo(u)
    \/ \E u \in Users : GetTitle(u)
    \/ \E u \in Users : GetChannel(u)
    \/ \E u \in Users : GetDuration(u)
    \/ \E u \in Users : GetColorAndProcess(u)
    \/ \E u \in Users : Cancel(u)
    \/ ProbeError
    \/ ProbeAndPlan
    \/ TranscodeOk
    \/ TranscodeError
    \/ SendOk
    \/ SendError
    \/ RemoveClip
    \/ AllDone
    \/ Except
    \/ Finally
    \/ CancelArrives
    \/ Return
    \/ Raise

Spec == Init /\ [][Next]_vars

\* --------------------------------------------------------------- claims

Min(a, b) == IF a < b THEN a ELSE b

\* The job is past its planning step: num_clips is set.
Planned ==
    \/ pc \in {"loop", "send", "remove"}
    \/ /\ pc \in {"except", "finally", "returned", "raised"}
       /\ failure \notin {"probe", "plan"}

\* The handler has ended, by return or by raise.
Ended == pc \in {"returned", "raised"}

C2_ArtifactDeletedInIteration ==
    (pc \in {"loop", "returned", "raised"} /\ failure # "remove_clip")
        => \A j \in 1..Len(deliveries) :
               ~PathExists(OutputFilename(deliveries[j].part, cur))

C5_WindowLengthTruncated ==
    \A j \in 1..Len(transcodes) :
        ClipDuration > 0 =>
            transcodes[j].t * Res
                = Min(ClipDuration * Res, total - transcodes[j].ss * Res)

\* C6: for a positive duration and a positive clip length, num_clips is the
\* least n with n * clip_duration >= total_duration, window j (from 1)
\* starts at (j - 1) * clip_duration, and a job without failure transcodes
\* exactly num_clips windows.
C6_CeilClips ==
    (Planned /\ total > 0 /\ ClipDuration > 0) =>
        /\ num_clips * ClipDuration * Res >= total
        /\ (num_clips - 1) * ClipDuration * Res < total
        /\ \A j \in 1..Len(transcodes) :
              transcodes[j].ss = (j - 1) * ClipDuration
        /\ (Ended /\ failure = "none") => Len(transcodes) = num_clips

\* C6 witness: a source exactly as long as one clip (2 ticks, clip length
\* 1 s) was cut into one clip, not two.
C6_Witness ==
    /\ pc = "returned"
    /\ failure = "none"
    /\ total = Res
    /\ ClipDuration = 1
    /\ num_clips = 1
    /\ Len(transcodes) = 1

\* C7: a job whose clip length or total duration is not positive ends with
\* one error report, without a transcode or a delivery.
C7_InvalidInputFails ==
    (Ended /\ failure # "probe" /\ (ClipDuration <= 0 \/ total <= 0))
        => /\ reports = <<"error">>
           /\ transcodes = <<>>
           /\ deliveries = <<>>

\* C8: the job runs only with a positive clip length, and no other clip
\* length is ever stored.
C8_CoreGetsPositiveLength ==
    /\ pc # "idle" => ClipDuration > 0
    /\ \A u \in Users :
          "duration" \in DOMAIN user_data[u] => user_data[u]["duration"] > 0

\* C9: the job handler is never left by an exception of the source-file
\* cleanup.
C9_CleanupNeverRaises ==
    pc # "raised"

\* C10: a cleanup that finds the source file already removed by an earlier
\* cleanup changes nothing on disk and does not fail: /cancel then returns
\* and ends the conversation.
C10_CleanupIdempotent ==
    [][\A u \in Users :
          (Cancel(u) /\ Found(user_data[u], FALSE) = "absent")
              => /\ fs' = fs
                 /\ conv'[u] = END
                 /\ last'.outcome = "returned"]_vars

\* C10 witness: /cancel has run on a source file that an earlier cleanup had
\* removed, and returned.
C10_Witness ==
    /\ last = Ran("cancel", "returned", "absent")
    /\ \A u \in Users : conv[u] = END

C12_OneReportNoRetry ==
    /\ Len(reports) <= 1
    /\ \A j, k \in 1..Len(transcodes) :
          transcodes[j].part = transcodes[k].part => j = k
    /\ \A j, k \in 1..Len(deliveries) :
          deliveries[j].part = deliveries[k].part => j = k
    /\ (Ended /\ failure = "none")
         => /\ reports = <<"done">>
            /\ Len(deliveries) = RangeLen(num_clips)
            /\ \A j \in 1..Len(deliveries) : deliveries[j].ok
    /\ (Ended /\ failure # "none") => reports = <<"error">>
    /\ failure # "none" => "done" \notin {reports[j] : j \in 1..Len(reports)}

\* C12 witness: a job has delivered two windows and reported success.
C12_Witness ==
    /\ pc = "returned"
    /\ reports = <<"done">>
    /\ Len(deliveries) = 2

\* C13: once a /cancel has arrived, the job starts no further clip: at the
\* head of the loop no transcode begins while the request is waiting.
C13_CancelStopsNextClip ==
    [][(pending_cancel /\ pc = "loop") => transcodes' = transcodes]_vars

\* The names part_<n>_<id>.mp4 of the parts 1..MaxPart of the jobs
\* 1..MaxJobId are pairwise different.
NamesInjective ==
    \A n1, n2 \in 1..MaxPart : \A u1, u2 \in 1..MaxJobId :
        OutputFilename(n1, u1) = OutputFilename(n2, u2)
            => (n1 = n2 /\ u1 = u2)

\* C14: in every collecting state /cancel is handled, and handling it ends
\* the conversation and leaves no downloaded source file of the user on
\* disk.
C14_CancelEndsConversation ==
    /\ [](\A u \in Users :
            (pc = "idle" /\ conv[u] \in States) => ENABLED Cancel(u))
    /\ [][\A u \in Users :
            Cancel(u) =>
                /\ conv'[u] = END
                /\ "video_path" \in DOMAIN user_data[u]
                     => user_data[u]["video_path"] \notin fs']_vars

\* C15: the output name is an injective function of (user id, part number):
\* a path the running job writes is the name of no other part and of no
\* other user's part, two windows of the job never have the same path, and
\* the path sent and deleted is the path written.
C15_OutputNamesDistinct ==
    /\ NamesInjective
    /\ \A j \in 1..Len(transcodes) :
          \A n \in 1..MaxPart : \A u \in 1..MaxJobId :
              transcodes[j].out = OutputFilename(n, u)
                  => (n = transcodes[j].part /\ u = cur)
    /\ \A j, k \in 1..Len(transcodes) :
          transcodes[j].out = transcodes[k].out => j = k
    /\ pc \in {"send", "remove"}
         => OutputFilename(PartNum(i), cur) = transcodes[Len(transcodes)].out

\* C15 witness: a job has written, sent and deleted three parts.
C15_Witness ==
    /\ pc = "returned"
    /\ Len(transcodes) = 3
    /\ Len(deliveries) = 3
    /\ failure = "none"

\* The keys of user_data.
Keys == {"video_path", "title", "channel", "duration", "color"}

\* C16: the conversation state of a user changes only along
\* END -> GET_VIDEO -> GET_TITLE -> GET_CHANNEL -> GET_DURATION -> GET_COLOR
\* -> END, each step by the handler of the state left, or to END by /cancel;
\* the only run of a state's own handler that leaves the state as it was is
\* get_duration, in GET_DURATION and with nothing stored; and the job runs
\* only when the five fields have been collected since /start.
C16_LinearConversation ==
    /\ [][\A u \in Users :
            conv'[u] # conv[u] =>
                \/ /\ conv[u] = END
                   /\ conv'[u] = "GET_VIDEO"
                   /\ last'.handler = "start"
                \/ /\ conv[u] = "GET_VIDEO"
                   /\ conv'[u] = "GET_TITLE"
                   /\ last'.handler = "get_video"
                \/ /\ conv[u] = "GET_TITLE"
                   /\ conv'[u] = "GET_CHANNEL"
                   /\ last'.handler = "get_title"
                \/ /\ conv[u] = "GET_CHANNEL"
                   /\ conv'[u] = "GET_DURATION"
                   /\ last'.handler = "get_channel"
                \/ /\ conv[u] = "GET_DURATION"
                   /\ conv'[u] = "GET_COLOR"
                   /\ last'.handler = "get_duration"
                \/ /\ conv[u] = "GET_COLOR"
                   /\ conv'[u] = END
                   /\ pc = "returned"
                   /\ last'.handler = "get_color_and_process"
                \/ /\ conv[u] \in States
                   /\ conv'[u] = END
                   /\ pc = "idle"
                   /\ last'.handler = "cancel"]_vars
    /\ [][(pc' = "idle" /\ conv' = conv /\ last'.handler # "cancel")
            => /\ pc = "idle"
               /\ last' = Ran("get_duration", "returned", "none")
               /\ \E u \in Users : conv[u] = "GET_DURATION"
               /\ user_data' = user_data]_vars
    /\ [](pc # "idle" => DOMAIN collected[cur] = Keys)

\* C17: when the job handler has ended, the conversation of its user has
\* ended.
C17_JobEndsConversation ==
    [][(pc # "idle" /\ pc' = "idle") => conv'[cur] = END]_vars

SourcePaths == {VideoPath(f) : f \in FileIds}

====
